---- MODULE Spec2Model ----
(***************************************************************************)
(* A model of converter/tableau_to_dax.py: the tokenizer, the recursive    *)
(* descent parser for IF and CASE, the level-of-detail preprocessor and    *)
(* the identifier/function normalizer, composed by tableau_to_dax.         *)
(*                                                                         *)
(* A Python string is modelled as a Text: a sequence of lexemes, each a    *)
(* maximal run of characters of one kind (a word, a bracketed field, a     *)
(* punctuation sign, a run of white space).  The string is the             *)
(* concatenation of its lexemes with nothing in between, so white space is *)
(* explicit: " " is a blank, "\n" a line break followed by indentation.    *)
(* A regular expression of the source is modelled by what it matches on    *)
(* such a sequence.                                                        *)
(***************************************************************************)
EXTENDS Integers, Sequences, FiniteSets, TLC

VARIABLES
    src,      \* the caller's expression, as the caller composed it
    input,    \* tableau_expr: the text handed to tableau_to_dax
    pc,       \* position of the call: "idle", "start", "call", "simple", "ret",
              \* "done", "error"
    expr,     \* local expr of tableau_to_dax
    tokens,   \* Parser.tokens
    pos,      \* Parser.pos
    stack,    \* the activation records of parse_if / parse_case / parse_simple
    ret,      \* the value the last parse_* call returned
    result,   \* the value tableau_to_dax returns
    via,      \* which return statement produced result: "early" or "parser"
    err       \* the exception that ended the call

vars == <<src, input, pc, expr, tokens, pos, stack, ret, result, via, err>>

-----------------------------------------------------------------------------
(* Bounds of the model. *)

MaxTokens == 3
MaxElseIf == 1
MaxWhen == 2
MaxDims == 2
MaxText == 3

-----------------------------------------------------------------------------
(* Lexemes. *)

DefaultTable == "Table"

Keywords == {"IF", "THEN", "ELSEIF", "ELSE", "END", "CASE", "WHEN"}

Fields == {"[a]", "[b]", "[R]", "[S]", "[InnerValue]"}

Numbers == {"0", "1"}

Strings == {"\"s\"", "\"InnerValue\""}

Operators == {"=", "<>", "<=", ">=", "<", ">"}

Spaces == {" ", "\n"}

\* Lexemes that are not made of word characters (letters, digits, _).
NonWord == Fields \cup Strings \cup Operators \cup Spaces
           \cup {"(", ")", ",", "+", "{", "}", ":", "&&", "||", "'s'"}

IsSpace(l) == l \in Spaces

IsWord(l) == l \notin NonWord

\* str.upper() on one lexeme.
Upper(l) ==
    CASE l = "if" -> "IF"
      [] l = "then" -> "THEN"
      [] l = "end" -> "END"
      [] l = "when" -> "WHEN"
      [] l = "elseif" -> "ELSEIF"
      [] l = "else" -> "ELSE"
      [] l = "case" -> "CASE"
      [] l = "sum" -> "SUM"
      [] l = "include" -> "INCLUDE"
      [] l = "sumx" -> "SUMX"
      [] l = "avg" -> "AVG"
      [] l = "and" -> "AND"
      [] OTHER -> l

\* Python's None, and a string's truth value: None and "" are false.
None == <<>>

-----------------------------------------------------------------------------
(* Text helpers. *)

RECURSIVE JoinWith(_, _)
\* sep.join(parts)
JoinWith(sep, parts) ==
    IF parts = <<>> THEN <<>>
    ELSE IF Len(parts) = 1 THEN parts[1]
    ELSE parts[1] \o sep \o JoinWith(sep, Tail(parts))

RECURSIVE LStrip(_)
LStrip(t) ==
    IF t # <<>> /\ IsSpace(Head(t)) THEN LStrip(Tail(t)) ELSE t

RECURSIVE RStrip(_)
RStrip(t) ==
    IF t # <<>> /\ IsSpace(t[Len(t)]) THEN RStrip(SubSeq(t, 1, Len(t) - 1)) ELSE t

\* str.strip()
Strip(t) == RStrip(LStrip(t))

-----------------------------------------------------------------------------
(* Tokenizer. *)

\* \b on both sides of the lexeme at i.
WordBounded(t, i) ==
    /\ (i = 1 \/ ~IsWord(t[i - 1]))
    /\ (i = Len(t) \/ ~IsWord(t[i + 1]))

\* The alternatives of TOKEN_REGEX before OTHER: each matches one lexeme.
SingleLexeme(t, i) ==
    \/ Upper(t[i]) \in Keywords /\ WordBounded(t, i)
    \/ t[i] \in Fields
    \/ t[i] \in Numbers
    \/ t[i] \in Strings
    \/ t[i] \in Operators
    \/ t[i] \in {"(", ")", ","}

RECURSIVE RunEnd(_, _)
\* OTHER, [^\s]+: the last index of the run of non-space lexemes from i.
RunEnd(t, i) ==
    IF i < Len(t) /\ ~IsSpace(t[i + 1]) THEN RunEnd(t, i + 1) ELSE i

RECURSIVE TokensFrom(_, _)
TokensFrom(t, i) ==
    IF i > Len(t) THEN <<>>
    ELSE IF IsSpace(t[i]) THEN TokensFrom(t, i + 1)
    ELSE IF SingleLexeme(t, i) THEN <<<<t[i]>>>> \o TokensFrom(t, i + 1)
    ELSE <<SubSeq(t, i, RunEnd(t, i))>> \o TokensFrom(t, RunEnd(t, i) + 1)

\* tokenize(expr): the matches of TOKEN_REGEX, each token a Text.
tokenize(t) == TokensFrom(t, 1)

-----------------------------------------------------------------------------
(* Parser: peek, consume and the pieces of parse_if / parse_case. *)

NoErr == [type |-> "none", expected |-> "", got |-> None]

\* Parser.peek at position p.
PeekAt(toks, p) == IF p < Len(toks) THEN toks[p + 1] ELSE None

\* tok.upper() == kw
TokIs(tok, kw) == Len(tok) = 1 /\ Upper(tok[1]) = kw

\* The exception consume(expected) raises at p, NoErr when it raises none.
\* tok.upper() on None is an AttributeError, not the ValueError of line 44.
ConsumeErr(toks, p, expected) ==
    IF PeekAt(toks, p) = None
    THEN [type |-> "AttributeError", expected |-> expected, got |-> None]
    ELSE IF ~TokIs(PeekAt(toks, p), expected)
    THEN [type |-> "ValueError", expected |-> expected, got |-> PeekAt(toks, p)]
    ELSE NoErr

\* self.pos += 1
AdvanceNoMove(p) == p

Advance(p) == p + 1

StopWords == {"THEN", "ELSE", "ELSEIF", "WHEN", "END"}

\* The loop condition of parse_simple.
SimpleContinues(toks, p) ==
    /\ PeekAt(toks, p) # None
    /\ ~(\E k \in StopWords : TokIs(PeekAt(toks, p), k))

\* f"SWITCH({', '.join(parts)})"
SwitchText(parts) == <<"SWITCH", "(">> \o JoinWith(<<",", " ">>, parts) \o <<")">>

Blank == <<"BLANK", "(", ")">>

True == <<"TRUE", "(", ")">>

RECURSIVE PairParts(_)
\* for c, v in conditions: parts.extend([c, v])
PairParts(pairs) ==
    IF pairs = <<>> THEN <<>>
    ELSE <<pairs[1][1], pairs[1][2]>> \o PairParts(Tail(pairs))

RECURSIVE PairPartsReversed(_)
PairPartsReversed(pairs) ==
    IF pairs = <<>> THEN <<>>
    ELSE PairPartsReversed(Tail(pairs)) \o <<pairs[1][1], pairs[1][2]>>

\* parse_if, lines 88-93.
IfResultReversed(pairs, elseExpr) ==
    SwitchText(<<True>> \o PairPartsReversed(pairs) \o <<elseExpr>>)

IfResult(pairs, elseExpr) ==
    SwitchText(<<True>> \o PairParts(pairs) \o <<elseExpr>>)

\* f"{base_expr} = {w}" when base_expr is true, w otherwise.
WhenConditionNoTest(base, w) == w

WhenCondition(base, w) ==
    IF base # None THEN base \o <<" ", "=", " ">> \o w ELSE w

RECURSIVE WhenParts(_, _)
WhenParts(base, whens) ==
    IF whens = <<>> THEN <<>>
    ELSE <<WhenCondition(base, whens[1][1]), whens[1][2]>>
         \o WhenParts(base, Tail(whens))

\* parse_case, lines 121-130.
CaseResult(base, whens, elseExpr) ==
    SwitchText(<<True>> \o WhenParts(base, whens) \o <<elseExpr>>)

-----------------------------------------------------------------------------
(* Parser: the activation records and one action per code segment between  *)
(* two calls of parse_expression.                                          *)

Frame(fn, st) ==
    [fn |-> fn, st |-> st, pairs |-> <<>>, cond |-> None, base |-> None,
     parts |-> <<>>]

Top == stack[Len(stack)]

Below == SubSeq(stack, 1, Len(stack) - 1)

Peek == PeekAt(tokens, pos)

Step(npc, npos, nstack, nret) ==
    /\ pc' = npc
    /\ pos' = npos
    /\ stack' = nstack
    /\ ret' = nret
    /\ UNCHANGED <<src, input, expr, tokens, result, via, err>>

\* An exception leaves the call with the cursor at p; nothing catches it
\* inside tableau_to_dax.
RaiseAt(e, p) ==
    /\ pc' = "error"
    /\ err' = e
    /\ pos' = p
    /\ UNCHANGED <<src, input, expr, tokens, stack, ret, result, via>>

Raise(e) == RaiseAt(e, pos)

\* consume("END") and the return statement, with the else value known.
Close(text) ==
    IF ConsumeErr(tokens, pos, "END") # NoErr
    THEN Raise(ConsumeErr(tokens, pos, "END"))
    ELSE Step("ret", Advance(pos), Below, text)

\* parse_if from the head of its while loop (line 73) with frame f on top.
IfHead(f) ==
    IF TokIs(Peek, "ELSEIF")
    THEN Step("call", Advance(pos), Below \o <<[f EXCEPT !.st = "cond"]>>, ret)
    ELSE IF TokIs(Peek, "ELSE")
    THEN Step("call", Advance(pos), Below \o <<[f EXCEPT !.st = "else"]>>, ret)
    ELSE Close(IfResult(f.pairs, Blank))

\* parse_case from the head of its while loop (line 106) with frame f on top
\* of the frames under.
CaseHead(f, under, p) ==
    IF TokIs(PeekAt(tokens, p), "WHEN")
    THEN Step("call", Advance(p), under \o <<[f EXCEPT !.st = "when"]>>, ret)
    ELSE IF TokIs(PeekAt(tokens, p), "ELSE")
    THEN Step("call", Advance(p), under \o <<[f EXCEPT !.st = "else"]>>, ret)
    ELSE IF ConsumeErr(tokens, p, "END") # NoErr
    THEN RaiseAt(ConsumeErr(tokens, p, "END"), p)
    ELSE Step("ret", Advance(p), under, CaseResult(f.base, f.pairs, Blank))

\* parse_expression line 49-50 and parse_if line 66-67.
EnterIf ==
    /\ pc = "call"
    /\ TokIs(Peek, "IF")
    /\ Step("call", Advance(pos), stack \o <<Frame("if", "cond")>>, ret)

\* parse_expression line 51-52 and parse_case lines 98-106.
EnterCase ==
    /\ pc = "call"
    /\ TokIs(Peek, "CASE")
    /\ IF PeekAt(tokens, Advance(pos)) = None
       THEN RaiseAt([type |-> "AttributeError", expected |-> "", got |-> None],
                    Advance(pos))
       ELSE IF ~TokIs(PeekAt(tokens, Advance(pos)), "WHEN")
       THEN Step("simple", Advance(pos),
                 stack \o <<Frame("case", "base"), Frame("simple", "loop")>>, ret)
       ELSE CaseHead(Frame("case", "when"), stack, Advance(pos))

\* parse_expression line 53 and parse_simple line 56.
EnterSimple ==
    /\ pc = "call"
    /\ ~TokIs(Peek, "IF")
    /\ ~TokIs(Peek, "CASE")
    /\ Step("simple", pos, stack \o <<Frame("simple", "loop")>>, ret)

\* One iteration of the loop of parse_simple.
SimpleLoop ==
    /\ pc = "simple"
    /\ SimpleContinues(tokens, pos)
    /\ Step("simple", Advance(pos),
            Below \o <<[Top EXCEPT !.parts = Append(@, Peek)]>>, ret)

\* parse_simple line 61.
SimpleReturn ==
    /\ pc = "simple"
    /\ ~SimpleContinues(tokens, pos)
    /\ Step("ret", pos, Below, JoinWith(<<" ">>, Top.parts))

Returned(fn, st) ==
    /\ pc = "ret"
    /\ stack # <<>>
    /\ Top.fn = fn
    /\ Top.st = st

\* parse_if lines 68-69 and 76-77: the condition is parsed.
IfCond ==
    /\ Returned("if", "cond")
    /\ IF ConsumeErr(tokens, pos, "THEN") # NoErr
       THEN Raise(ConsumeErr(tokens, pos, "THEN"))
       ELSE Step("call", Advance(pos),
                 Below \o <<[Top EXCEPT !.st = "then", !.cond = ret]>>, ret)

\* parse_if lines 71-86: the value is parsed.
IfThen ==
    /\ Returned("if", "then")
    /\ IfHead([Top EXCEPT !.pairs = Append(@, <<Top.cond, ret>>)])

\* parse_if lines 82-93: the else value is parsed.
IfElse ==
    /\ Returned("if", "else")
    /\ Close(IfResult(Top.pairs, ret))

\* parse_case lines 102-106: the scrutinee is parsed.
CaseBase ==
    /\ Returned("case", "base")
    /\ CaseHead([Top EXCEPT !.base = ret], Below, pos)

\* parse_case lines 109-110.
CaseWhen ==
    /\ Returned("case", "when")
    /\ IF ConsumeErr(tokens, pos, "THEN") # NoErr
       THEN Raise(ConsumeErr(tokens, pos, "THEN"))
       ELSE Step("call", Advance(pos),
                 Below \o <<[Top EXCEPT !.st = "then", !.cond = ret]>>, ret)

\* parse_case lines 111-119.
CaseThen ==
    /\ Returned("case", "then")
    /\ CaseHead([Top EXCEPT !.pairs = Append(@, <<Top.cond, ret>>)], Below, pos)

\* parse_case lines 115-130.
CaseElse ==
    /\ Returned("case", "else")
    /\ Close(CaseResult(Top.base, Top.pairs, ret))

-----------------------------------------------------------------------------
(* Conditional aggregation and level-of-detail preprocessing. *)

Aggs == {"SUM", "COUNT", "AVG", "MIN", "MAX", "COUNTD"}

LodKinds == {"FIXED", "EXCLUDE", "INCLUDE"}

Iterators == {"SUMX", "AVERAGEX", "COUNTX", "MINX", "MAXX"}

RECURSIVE SkipSpaces(_, _)
\* \s* from i: the index of the first lexeme at or after i that is no space.
SkipSpaces(t, i) ==
    IF i <= Len(t) /\ IsSpace(t[i]) THEN SkipSpaces(t, i + 1) ELSE i

Has(t, i, l) == i >= 1 /\ i <= Len(t) /\ t[i] = l

HasUpper(t, i, l) == i >= 1 /\ i <= Len(t) /\ Upper(t[i]) = l

HasSpace(t, i) == i >= 1 /\ i <= Len(t) /\ IsSpace(t[i])

\* \s+(.*?)\s+ between the lexemes at a and b: white space on both sides, and
\* two characters of it when the group in between is empty.
Spaced(t, a, b) ==
    /\ HasSpace(t, a + 1)
    /\ HasSpace(t, b - 1)
    /\ (b - 1 > a + 1 \/ t[a + 1] = "\n")

\* AGG\s*\( at i: the index of the parenthesis, 0 when there is none.
AggOpen(t, i) ==
    IF i <= Len(t) /\ Upper(t[i]) \in Aggs /\ Has(t, SkipSpaces(t, i + 1), "(")
    THEN SkipSpaces(t, i + 1) ELSE 0

\* The lexeme after AGG\s*\(\s* at i.
AfterOpen(t, i) == SkipSpaces(t, AggOpen(t, i) + 1)

\* Where AGG\s*\(\s*IF matches, where THEN stands, where END\s*\) matches.
CondStarts(t) ==
    {i \in 1..Len(t) : AggOpen(t, i) # 0 /\ HasUpper(t, AfterOpen(t, i), "IF")}

Thens(t) == {j \in 1..Len(t) : Upper(t[j]) = "THEN"}

Ends(t) ==
    {j \in 1..Len(t) : Upper(t[j]) = "END" /\ Has(t, SkipSpaces(t, j + 1), ")")}

\* The matches <<i, th, en>> of cond_pattern: the aggregation at i, THEN at th,
\* END at en.
CondMatches(t) ==
    {m \in CondStarts(t) \X Thens(t) \X Ends(t) :
        /\ AfterOpen(t, m[1]) < m[2]
        /\ m[2] < m[3]
        /\ Spaced(t, AfterOpen(t, m[1]), m[2])
        /\ Spaced(t, m[2], m[3])}

Before(m, n) ==
    \/ m[1] < n[1]
    \/ m[1] = n[1] /\ m[2] < n[2]
    \/ m[1] = n[1] /\ m[2] = n[2] /\ m[3] <= n[3]

\* search() returns the leftmost match; the lazy groups take the shortest.
FirstOf(ms) == CHOOSE m \in ms : \A n \in ms : Before(m, n)

\* The matches <<i, 0, q>> of simple_pattern: the aggregation at i, the closing
\* parenthesis at q.
SimpleMatches(t) ==
    {m \in {i \in 1..Len(t) : AggOpen(t, i) # 0} \X {0}
           \X {q \in 1..Len(t) : t[q] = ")"} :
        AggOpen(t, m[1]) < m[3]}

NoAgg == [found |-> FALSE, agg |-> "", val |-> <<>>, filters |-> <<>>]

\* extract_conditional_aggregation(expr): f"{agg}({val})" is kept in two fields.
extract_conditional_aggregation(e) ==
    LET t == Strip(e)
    IN  IF CondMatches(t) # {}
        THEN LET m == FirstOf(CondMatches(t))
                 f == AfterOpen(t, m[1])
             IN  [found |-> TRUE, agg |-> Upper(t[m[1]]),
                  val |-> Strip(SubSeq(t, m[2] + 1, m[3] - 1)),
                  filters |-> <<Strip(SubSeq(t, f + 1, m[2] - 1))>>]
        ELSE IF SimpleMatches(t) # {}
        THEN LET m == FirstOf(SimpleMatches(t))
             IN  [found |-> TRUE, agg |-> Upper(t[m[1]]),
                  val |-> SubSeq(t, AggOpen(t, m[1]) + 1, m[3] - 1),
                  filters |-> <<>>]
        ELSE NoAgg

\* The lexemes of t before its first line break: "." does not match one.
RECURSIVE FirstLine(_)
FirstLine(t) ==
    IF t = <<>> \/ Head(t) = "\n" THEN <<>> ELSE <<Head(t)>> \o FirstLine(Tail(t))

RECURSIVE UpToLastParen(_)
\* (.*)\) on one line: the text before its last closing parenthesis.
UpToLastParen(t) ==
    IF t = <<>> THEN <<>>
    ELSE IF t[Len(t)] = ")" THEN SubSeq(t, 1, Len(t) - 1)
    ELSE UpToLastParen(SubSeq(t, 1, Len(t) - 1))

\* re.match(r'(\w+)\((.*)\)', agg_expr) on f"{agg}({val})": whether it matches,
\* and group 2 stripped.
AggMatches(val) == \E i \in 1..Len(FirstLine(val \o <<")">>)) :
                       FirstLine(val \o <<")">>)[i] = ")"

MeasureOf(val) == Strip(UpToLastParen(FirstLine(val \o <<")">>)))

\* lines 207-210
AggFunc(agg) ==
    IF agg = "COUNTD" THEN "DISTINCTCOUNT"
    ELSE IF agg = "AVG" THEN "AVERAGE"
    ELSE agg

\* iterator_map.get(agg_func, "SUMX")
IteratorOfSumOnly(aggFunc) == "SUMX"

IteratorOf(aggFunc) ==
    CASE aggFunc = "SUM" -> "SUMX"
      [] aggFunc = "AVERAGE" -> "AVERAGEX"
      [] aggFunc = "COUNT" -> "COUNTX"
      [] aggFunc = "MIN" -> "MINX"
      [] aggFunc = "MAX" -> "MAXX"
      [] OTHER -> "SUMX"

RECURSIVE SplitOn(_, _)
\* str.split(sep) for a one-lexeme separator.
SplitOn(t, sep) ==
    IF \A i \in 1..Len(t) : t[i] # sep THEN <<t>>
    ELSE LET c == CHOOSE i \in 1..Len(t) :
                      t[i] = sep /\ \A j \in 1..(i - 1) : t[j] # sep
         IN  <<SubSeq(t, 1, c - 1)>> \o SplitOn(SubSeq(t, c + 1, Len(t)), sep)

RECURSIVE StripEach(_)
\* [d.strip() for d in parts if d.strip()]
StripEach(parts) ==
    IF parts = <<>> THEN <<>>
    ELSE IF Strip(Head(parts)) = <<>> THEN StripEach(Tail(parts))
    ELSE <<Strip(Head(parts))>> \o StripEach(Tail(parts))

\* The index of the lod keyword after "{" and optional white space.
LodKindAt(e) == SkipSpaces(e, 2)

\* The first lexeme after the white space that follows the lod keyword.
LodDimsAt(e) == SkipSpaces(e, LodKindAt(e) + 1)

\* re.match of \{\s*(FIXED|EXCLUDE|INCLUDE)\s+(.*?)\s*:\s*(.*?)\s*\}$
LodMatches(e) ==
    /\ Has(e, 1, "{")
    /\ LodKindAt(e) <= Len(e)
    /\ Upper(e[LodKindAt(e)]) \in LodKinds
    /\ HasSpace(e, LodKindAt(e) + 1)
    /\ \E c \in LodDimsAt(e)..(Len(e) - 1) : e[c] = ":"
    /\ e[Len(e)] = "}"

LodColon(e) ==
    CHOOSE c \in LodDimsAt(e)..(Len(e) - 1) :
        e[c] = ":" /\ \A j \in LodDimsAt(e)..(c - 1) : e[j] # ":"

LodType(e) == Upper(e[LodKindAt(e)])

LodDims(e) == StripEach(SplitOn(SubSeq(e, LodDimsAt(e), LodColon(e) - 1), ","))

LodInner(e) == Strip(SubSeq(e, LodColon(e) + 1, Len(e) - 1))

\* ", " + ", ".join(filters) if filters else ""
FilterClause(filters) ==
    IF filters = <<>> THEN <<>>
    ELSE <<",", " ">> \o JoinWith(<<",", " ">>, filters)

DimList(dims) == JoinWith(<<",", " ">>, dims)

\* The f-strings of lines 216-263; "\n" stands for a line break and the
\* indentation after it.
FixedText(aggFunc, measure, filters, dims, table) ==
    <<"CALCULATE", "(", "\n", aggFunc, "(">> \o measure \o <<")", "\n">>
    \o FilterClause(filters) \o <<",", "\n", "ALLEXCEPT", "(", table, ",", " ">>
    \o DimList(dims) \o <<")", "\n", ")">>

ExcludeText(aggFunc, measure, filters, dims) ==
    <<"CALCULATE", "(", "\n", aggFunc, "(">> \o measure \o <<")", "\n">>
    \o FilterClause(filters) \o <<",", "\n", "REMOVEFILTERS", "(">>
    \o DimList(dims) \o <<")", "\n", ")">>

IncludeDistinctText(measure, filters, dims) ==
    <<"CALCULATE", "(", "\n", "DISTINCTCOUNT", "(">> \o measure \o <<")", "\n">>
    \o FilterClause(filters) \o <<",", "\n", "VALUES", "(">>
    \o DimList(dims) \o <<")", "\n", ")">>

IncludeIteratorText(aggFunc, measure, filters, dims, table) ==
    <<IteratorOf(aggFunc), "(", "\n", "SUMMARIZE", "(", "\n", table, ",", "\n">>
    \o DimList(dims)
    \o <<",", "\n", "\"InnerValue\"", ",", "\n", "CALCULATE", "(", aggFunc, "(",
         table>>
    \o measure \o <<")">> \o FilterClause(filters)
    \o <<")", "\n", ")", ",", "\n", "[InnerValue]", "\n", ")">>

LodError(msg) == [type |-> "ValueError", expected |-> msg, got |-> None]

\* The exception preprocess_lod raises on e, NoErr when it raises none.
LodErr(e) ==
    IF ~LodMatches(e) THEN NoErr
    ELSE IF ~extract_conditional_aggregation(LodInner(e)).found
    THEN LodError("LOD expressions must contain supported aggregation")
    ELSE IF ~AggMatches(extract_conditional_aggregation(LodInner(e)).val)
    THEN LodError("Unsupported aggregation inside LOD")
    ELSE NoErr

\* preprocess_lod(expr, default_table) where it returns.
preprocess_lod(e0, table) ==
    LET e == Strip(e0)
    IN  IF ~LodMatches(e) THEN e
        ELSE LET x == extract_conditional_aggregation(LodInner(e))
                 f == AggFunc(x.agg)
                 m == MeasureOf(x.val)
                 d == LodDims(e)
             IN  CASE LodType(e) = "FIXED" -> FixedText(f, m, x.filters, d, table)
                   [] LodType(e) = "EXCLUDE" -> ExcludeText(f, m, x.filters, d)
                   [] f = "DISTINCTCOUNT" -> IncludeDistinctText(m, x.filters, d)
                   [] OTHER -> IncludeIteratorText(f, m, x.filters, d, table)

-----------------------------------------------------------------------------
(* Normalizer: lines 282-303. *)

RECURSIVE Qualified(_, _)
\* re.sub(r'\[([^\]]+)\]', rf"{default_table}[\1]", dax)
Qualified(t, table) ==
    IF t = <<>> THEN <<>>
    ELSE IF Head(t) \in Fields THEN <<table, Head(t)>> \o Qualified(Tail(t), table)
    ELSE <<Head(t)>> \o Qualified(Tail(t), table)

FunctionMap(l) ==
    CASE Upper(l) = "ISNULL" -> "ISBLANK"
      [] Upper(l) = "IFNULL" -> "COALESCE"
      [] Upper(l) = "ZN" -> "COALESCE"
      [] Upper(l) = "COUNTD" -> "DISTINCTCOUNT"
      [] Upper(l) = "AVG" -> "AVERAGE"
      [] OTHER -> l

RECURSIVE FunctionsRenamed(_, _)
\* The five re.sub(r'\bNAME\s*\(', 'NEW(', ...) of lines 291-295, from index i.
FunctionsRenamed(t, i) ==
    IF i > Len(t) THEN <<>>
    ELSE IF /\ FunctionMap(t[i]) # t[i]
            /\ (i = 1 \/ ~IsWord(t[i - 1]))
            /\ Has(t, SkipSpaces(t, i + 1), "(")
    THEN <<FunctionMap(t[i])>> \o FunctionsRenamed(t, SkipSpaces(t, i + 1))
    ELSE <<t[i]>> \o FunctionsRenamed(t, i + 1)

OperatorMap(l) ==
    CASE Upper(l) = "AND" -> "&&"
      [] Upper(l) = "OR" -> "||"
      [] OTHER -> l

\* re.sub(r'\bAND\b', '&&', ...) and re.sub(r'\bOR\b', '||', ...)
OperatorsRenamed(t) ==
    IF t = <<>> THEN <<>>
    ELSE [i \in 1..Len(t) |-> IF WordBounded(t, i) THEN OperatorMap(t[i]) ELSE t[i]]

RECURSIVE Collapsed(_)
\* re.sub(r'\s+', ' ', dax)
Collapsed(t) ==
    IF t = <<>> THEN <<>>
    ELSE IF IsSpace(Head(t)) THEN <<" ">> \o Collapsed(LStrip(t))
    ELSE <<Head(t)>> \o Collapsed(Tail(t))

Normalize(dax, table) ==
    Strip(Collapsed(OperatorsRenamed(FunctionsRenamed(Qualified(dax, table), 1))))

\* tableau_expr.replace("'", '"')
ReplaceQuotes(t) ==
    IF t = <<>> THEN <<>>
    ELSE [i \in 1..Len(t) |-> IF t[i] = "'s'" THEN "\"s\"" ELSE t[i]]

\* expr.upper().startswith(("SUMX(", "AVERAGEX(", "COUNTX(", "MINX(", "MAXX("))
StartsWithIterator(e) == Len(e) >= 2 /\ Upper(e[1]) \in Iterators /\ e[2] = "("

-----------------------------------------------------------------------------
(* The expressions a caller hands to tableau_to_dax.  An expression is     *)
(* composed as a tree (form "simple", "if", "case"), as a bare token       *)
(* sequence (form "raw"), as a text (form "text") or as a level-of-detail  *)
(* block (form "lod"), and written out as the input text.                  *)

Simple(toks) == [form |-> "simple", toks |-> toks]

IfExpr(pairs, hasElse, els, lower) ==
    [form |-> "if", pairs |-> pairs, hasElse |-> hasElse, els |-> els,
     lower |-> lower]

CaseExpr(base, pairs, hasElse, els, lower) ==
    [form |-> "case", toks |-> base, pairs |-> pairs, hasElse |-> hasElse,
     els |-> els, lower |-> lower]

Raw(toks) == [form |-> "raw", toks |-> toks]

Written(text) == [form |-> "text", text |-> text]

Lod(kind, dims, agg, shape) ==
    [form |-> "lod", kind |-> kind, dims |-> dims, agg |-> agg, shape |-> shape]

NoElse == Simple(<<>>)

Kw(k, lower) ==
    IF ~lower THEN k
    ELSE CASE k = "IF" -> "if"
           [] k = "THEN" -> "then"
           [] k = "ELSEIF" -> "elseif"
           [] k = "ELSE" -> "else"
           [] k = "END" -> "end"
           [] k = "CASE" -> "case"
           [] k = "WHEN" -> "when"

RECURSIVE TokensOf(_)
RECURSIVE ClauseTokens(_, _, _)
\* The clauses (ELSEIF c THEN v)* or (WHEN w THEN t)* as tokens.
ClauseTokens(pairs, k, lower) ==
    IF pairs = <<>> THEN <<>>
    ELSE <<Kw(k, lower)>> \o TokensOf(pairs[1][1]) \o <<Kw("THEN", lower)>>
         \o TokensOf(pairs[1][2]) \o ClauseTokens(Tail(pairs), k, lower)

\* The token sequence of an expression tree.
TokensOf(e) ==
    CASE e.form = "if" ->
           <<Kw("IF", e.lower)>> \o TokensOf(e.pairs[1][1])
           \o <<Kw("THEN", e.lower)>> \o TokensOf(e.pairs[1][2])
           \o ClauseTokens(Tail(e.pairs), "ELSEIF", e.lower)
           \o (IF e.hasElse THEN <<Kw("ELSE", e.lower)>> \o TokensOf(e.els)
               ELSE <<>>)
           \o <<Kw("END", e.lower)>>
      [] e.form = "case" ->
           <<Kw("CASE", e.lower)>> \o e.toks
           \o ClauseTokens(e.pairs, "WHEN", e.lower)
           \o (IF e.hasElse THEN <<Kw("ELSE", e.lower)>> \o TokensOf(e.els)
               ELSE <<>>)
           \o <<Kw("END", e.lower)>>
      [] OTHER -> e.toks

\* Tokens written out with one blank between them.
Spelled(toks) ==
    JoinWith(<<" ">>, [i \in 1..Len(toks) |-> <<toks[i]>>])

\* Sequences over S of length lo..hi.
SeqsOf(S, lo, hi) == UNION {[1..n -> S] : n \in lo..hi}

RawAlphabet ==
    {"IF", "THEN", "ELSEIF", "ELSE", "END", "CASE", "WHEN", "end", "[a]"}

RawSources == {Raw(t) : t \in SeqsOf(RawAlphabet, 0, MaxTokens)}

CondOptions == {Simple(<<"[a]">>), Simple(<<"[b]", "=", "1">>)}

ValueOptions ==
    {Simple(<<"x">>),
     Simple(<<"[a]", "+", "1">>),
     IfExpr(<<<<Simple(<<"[b]">>), Simple(<<"0">>)>>>>, FALSE, NoElse, FALSE)}

ElseOptions == {<<FALSE, NoElse>>} \cup {<<TRUE, v>> : v \in ValueOptions}

IfSources ==
    {IfExpr(p, e[1], e[2], l) :
        p \in SeqsOf(CondOptions \X ValueOptions, 1, MaxElseIf + 1),
        e \in ElseOptions, l \in BOOLEAN}

BaseOptions == {<<>>, <<"[a]">>, <<"[a]", "+", "1">>}

WhenOptions == {Simple(<<"1">>), Simple(<<"\"s\"">>)}

CaseSources ==
    {CaseExpr(b, p, e[1], e[2], l) :
        b \in BaseOptions,
        p \in SeqsOf(WhenOptions \X ValueOptions, 1, MaxWhen),
        e \in ElseOptions, l \in BOOLEAN}

-----------------------------------------------------------------------------
(* tableau_to_dax. *)

\* lines 273-280: quotes, preprocess_lod, the early return, tokenize, Parser().
Preprocess ==
    /\ pc = "start"
    /\ LET e == Strip(ReplaceQuotes(input))
       IN  IF LodErr(e) # NoErr
           THEN /\ pc' = "error"
                /\ err' = LodErr(e)
                /\ UNCHANGED <<expr, tokens, result, via>>
           ELSE /\ expr' = preprocess_lod(e, DefaultTable)
                /\ err' = err
                /\ IF StartsWithIterator(expr')
                   THEN /\ pc' = "done"
                        /\ result' = expr'
                        /\ via' = "early"
                        /\ tokens' = tokens
                   ELSE /\ pc' = "call"
                        /\ tokens' = tokenize(expr')
                        /\ UNCHANGED <<result, via>>
    /\ UNCHANGED <<src, input, pos, stack, ret>>

\* lines 280-304: parse_expression has returned to tableau_to_dax.
Finish ==
    /\ pc = "ret"
    /\ stack = <<>>
    /\ pc' = "done"
    /\ result' = Normalize(ret, DefaultTable)
    /\ via' = "parser"
    /\ UNCHANGED <<src, input, expr, tokens, pos, stack, ret, err>>

\* Texts without a keyword: no two word lexemes stand side by side, since
\* they would be one word.
PlainLexemes == {"[a]", "AVG", "(", "SUMX", " ", "and", "'s'"}

TextSources ==
    {Written(t) : t \in {u \in SeqsOf(PlainLexemes, 0, MaxText) :
        \A i \in 1..(Len(u) - 1) : ~(IsWord(u[i]) /\ IsWord(u[i + 1]))}}

KindSpellings == LodKinds \cup {"include"}

AggSpellings == Aggs \cup {"sum", "avg"}

LodShapes == {"plain", "cond", "two", "tail"}

LodSources ==
    {Lod(k, d, a, sh) :
        k \in KindSpellings, d \in SeqsOf({"[R]", "[S]"}, 0, MaxDims),
        a \in AggSpellings, sh \in LodShapes}
    \cup {Lod(k, d, "", "none") :
        k \in KindSpellings, d \in SeqsOf({"[R]", "[S]"}, 0, MaxDims)}

\* The inner expression of a level-of-detail block of each shape.
InnerText(agg, shape) ==
    CASE shape = "plain" -> <<agg, "(", "[a]", ")">>
      [] shape = "cond" ->
           <<agg, "(", "IF", " ", "[b]", " ", "=", " ", "1", " ", "THEN", " ",
             "[a]", " ", "END", ")">>
      [] shape = "two" -> <<agg, "(", "[a]", " ", "+", " ", "[b]", ")">>
      [] shape = "tail" -> <<agg, "(", "[a]", ")", " ", "+", " ", "[b]">>
      [] shape = "none" -> <<"[a]", " ", "+", " ", "1">>

LodText(s) ==
    <<"{", s.kind, " ">>
    \o JoinWith(<<",", " ">>, [i \in 1..Len(s.dims) |-> <<s.dims[i]>>])
    \o <<" ", ":", " ">> \o InnerText(s.agg, s.shape) \o <<"}">>

Sources ==
    RawSources \cup IfSources \cup CaseSources \cup TextSources \cup LodSources

\* The text of a source.
TextOf(s) ==
    CASE s.form = "text" -> s.text
      [] s.form = "lod" -> LodText(s)
      [] OTHER -> Spelled(TokensOf(s))

\* No call is in progress: tableau_to_dax keeps nothing between calls.
Init ==
    /\ src = Raw(<<>>)
    /\ input = <<>>
    /\ pc = "idle"
    /\ expr = <<>>
    /\ tokens = <<>>
    /\ pos = 0
    /\ stack = <<>>
    /\ ret = <<>>
    /\ result = <<>>
    /\ via = "none"
    /\ err = NoErr

\* The caller hands an expression to tableau_to_dax(tableau_expr), the table
\* name left to its default.
Call ==
    /\ pc = "idle"
    /\ src' \in Sources
    /\ input' = TextOf(src')
    /\ pc' = "start"
    /\ UNCHANGED <<expr, tokens, pos, stack, ret, result, via, err>>

Next ==
    \/ Call
    \/ Preprocess
    \/ EnterIf
    \/ EnterCase
    \/ EnterSimple
    \/ SimpleLoop
    \/ SimpleReturn
    \/ IfCond
    \/ IfThen
    \/ IfElse
    \/ CaseBase
    \/ CaseWhen
    \/ CaseThen
    \/ CaseElse
    \/ Finish

Spec == Init /\ [][Next]_vars

-----------------------------------------------------------------------------
(* What the claims expect, written from the claims and not from the code.  *)

Finished == pc \in {"done", "error"}

\* The parser has returned to tableau_to_dax.
Parsed == pc = "done" /\ via = "parser"

RECURSIVE Rendered(_)
RECURSIVE RenderedPairs(_, _)
\* ", condition, value" for each clause in source order; with a scrutinee the
\* condition is the equality test against it.
RenderedPairs(pairs, base) ==
    IF pairs = <<>> THEN <<>>
    ELSE <<",", " ">>
         \o (IF base = <<>> THEN <<>> ELSE Spelled(base) \o <<" ", "=", " ">>)
         \o Rendered(pairs[1][1]) \o <<",", " ">> \o Rendered(pairs[1][2])
         \o RenderedPairs(Tail(pairs), base)

\* SWITCH(TRUE(), pairs..., else value), BLANK() standing for a missing ELSE.
Rendered(e) ==
    IF e.form = "simple" THEN Spelled(e.toks)
    ELSE <<"SWITCH", "(", "TRUE", "(", ")">>
         \o RenderedPairs(e.pairs, IF e.form = "case" THEN e.toks ELSE <<>>)
         \o <<",", " ">>
         \o (IF e.hasElse THEN Rendered(e.els) ELSE <<"BLANK", "(", ")">>)
         \o <<")">>

\* C1: an IF with n ELSEIF clauses parses, without an error, to one SWITCH of
\* TRUE(), its n+1 condition/value pairs in source order and one else value,
\* BLANK() when ELSE is omitted.
C1_IfYieldsSwitchInOrder ==
    src.form = "if" =>
        /\ pc # "error"
        /\ (pc = "done" => via = "parser" /\ ret = Rendered(src))

C1_Witness ==
    /\ pc = "done"
    /\ src.form = "if"
    /\ Len(src.pairs) = 2
    /\ src.pairs[1] # src.pairs[2]
    /\ src.hasElse
    /\ ret = Rendered(src)

\* C2: a CASE parses, without an error, to SWITCH(TRUE(), ...) whose i-th
\* condition is "scrutinee = wi" when there is a scrutinee and wi itself when
\* there is none, with the values in source order and the else value last.
C2_CaseYieldsEqualityTests ==
    src.form = "case" =>
        /\ pc # "error"
        /\ (pc = "done" => via = "parser" /\ ret = Rendered(src))

C2_Witness ==
    /\ pc = "done"
    /\ src.form = "case"
    /\ src.toks = <<"[a]", "+", "1">>
    /\ Len(src.pairs) = 2
    /\ src.pairs[1][1] # src.pairs[2][1]
    /\ ret = Rendered(src)

RECURSIVE OpenAfter(_, _)
\* How many IF/CASE of toks are still open after its last token, d being open
\* before its first.
OpenAfter(toks, d) ==
    IF toks = <<>> THEN d
    ELSE IF TokIs(Head(toks), "IF") \/ TokIs(Head(toks), "CASE")
    THEN OpenAfter(Tail(toks), d + 1)
    ELSE IF TokIs(Head(toks), "END") /\ d > 0
    THEN OpenAfter(Tail(toks), d - 1)
    ELSE OpenAfter(Tail(toks), d)

\* C3: an input with an IF or CASE that no END closes ends in a parse error
\* that carries the expected keyword and the token found.
C3_UnclosedIsParseError ==
    (Finished /\ OpenAfter(tokens, 0) > 0) =>
        /\ pc = "error"
        /\ err.type = "ValueError"
        /\ err.expected \in Keywords
        /\ err.got # None

NoKeywordIn(t) == \A i \in 1..Len(t) : Upper(t[i]) \notin Keywords

\* The fields of t that the table name does not precede.
Unqualified(t) ==
    {i \in 1..Len(t) : t[i] \in Fields /\ (i = 1 \/ t[i - 1] # DefaultTable)}

\* C4: an input without a keyword that is no level-of-detail block is returned
\* by the parser path, with every field reference qualified.
C4_PlainInputIsNormalized ==
    (pc = "done" /\ NoKeywordIn(input) /\ src.form # "lod") =>
        /\ via = "parser"
        /\ Unqualified(result) = {}

\* The iterator the claim names for each aggregation.
MatchingIterator(agg) ==
    CASE agg = "SUM" -> "SUMX"
      [] agg = "AVG" -> "AVERAGEX"
      [] agg = "COUNT" -> "COUNTX"
      [] agg = "MIN" -> "MINX"
      [] agg = "MAX" -> "MAXX"

TargetName(agg) ==
    CASE agg = "AVG" -> "AVERAGE"
      [] agg = "COUNTD" -> "DISTINCTCOUNT"
      [] OTHER -> agg

\* The measure and the filter of a block whose inner expression is one
\* aggregation.
MeasureText(shape) ==
    IF shape = "two" THEN <<"[a]", " ", "+", " ", "[b]">> ELSE <<"[a]">>

FilterText(shape) ==
    IF shape = "cond" THEN <<",", " ", "[b]", " ", "=", " ", "1">> ELSE <<>>

DimsText(dims) == JoinWith(<<",", " ">>, [i \in 1..Len(dims) |-> <<dims[i]>>])

\* What an INCLUDE block is rewritten to: dims are the dimensions in source
\* order, repeated ones kept.
IncludeText(s) ==
    IF Upper(s.agg) = "COUNTD"
    THEN <<"CALCULATE", "(", "\n", "DISTINCTCOUNT", "(">> \o MeasureText(s.shape)
         \o <<")", "\n">> \o FilterText(s.shape)
         \o <<",", "\n", "VALUES", "(">> \o DimsText(s.dims) \o <<")", "\n", ")">>
    ELSE <<MatchingIterator(Upper(s.agg)), "(", "\n", "SUMMARIZE", "(", "\n",
           DefaultTable, ",", "\n">>
         \o DimsText(s.dims)
         \o <<",", "\n", "\"InnerValue\"", ",", "\n", "CALCULATE", "(",
              TargetName(Upper(s.agg)), "(", DefaultTable>>
         \o MeasureText(s.shape) \o <<")">> \o FilterText(s.shape)
         \o <<")", "\n", ")", ",", "\n", "[InnerValue]", "\n", ")">>

IsIncludeOfAggregation ==
    /\ src.form = "lod"
    /\ Upper(src.kind) = "INCLUDE"
    /\ src.shape \in {"plain", "cond", "two"}

\* C5: preprocess_lod rewrites an INCLUDE block of COUNTD to the one-level
\* CALCULATE(DISTINCTCOUNT(...), VALUES(dims)) and an INCLUDE block of any other
\* recognized aggregation to the two-level form under the iterator that matches
\* the aggregation, the dimensions in source order and not de-duplicated.
C5_IncludeUsesMatchingIterator ==
    (IsIncludeOfAggregation /\ pc # "start") =>
        /\ pc # "error"
        /\ expr = IncludeText(src)
        /\ (Upper(src.agg) # "COUNTD" <=> StartsWithIterator(expr))

C5_Witness ==
    /\ IsIncludeOfAggregation
    /\ pc = "done"
    /\ src.agg = "avg"
    /\ src.dims = <<"[S]", "[S]">>
    /\ src.shape = "cond"
    /\ result[1] = "AVERAGEX"

\* How many times the table name stands right before index i of t.
RECURSIVE PrefixCount(_, _)
PrefixCount(t, i) ==
    IF i > 1 /\ t[i - 1] = DefaultTable THEN 1 + PrefixCount(t, i - 1) ELSE 0

FieldsOf(t) == {t[i] : i \in {j \in 1..Len(t) : t[j] \in Fields}}

\* C6: on the conditional path and on every level-of-detail path, each field
\* reference of the input is in the output with the table prefix exactly once.
C6_EveryFieldQualifiedOnce ==
    (/\ pc = "done"
     /\ \/ src.form \in {"if", "case"}
        \/ src.form = "lod" /\ src.shape \in {"plain", "cond", "two"}) =>
        /\ FieldsOf(input) \subseteq FieldsOf(result)
        /\ \A i \in 1..Len(result) :
               result[i] \in FieldsOf(input) => PrefixCount(result, i) = 1

\* C7: a level-of-detail block whose inner expression is not one recognized
\* aggregation ends in an error and returns nothing.
C7_NonAggregationBodyFails ==
    (src.form = "lod" /\ src.shape \in {"none", "tail"}) => pc # "done"

\* C8: a result that comes through the parser has consumed every token.
C8_ParserConsumesEveryToken ==
    Parsed => pos = Len(tokens)

\* CASE [scrutinee] [ELSE e] END without any WHEN.
CaseWithoutWhen(toks) ==
    /\ Len(toks) >= 2
    /\ TokIs(toks[1], "CASE")
    /\ TokIs(toks[Len(toks)], "END")
    /\ \A i \in 1..Len(toks) : ~TokIs(toks[i], "WHEN")

\* C9: a CASE without a WHEN clause is a parse error, not a SWITCH.
C9_CaseNeedsWhen ==
    (pc # "start" /\ CaseWithoutWhen(tokens)) => pc # "done"

\* The work left to the parser: the tokens not consumed, and within one
\* position the steps until the next token is consumed.
Rank ==
    CASE pc = "call" -> 3
      [] pc = "simple" -> 2
      [] pc = "ret" -> 1
      [] OTHER -> 0

Measure == 4 * (Len(tokens) - pos) + Rank

Parsing == pc \in {"call", "simple", "ret"}

\* An iteration of the parse_simple, ELSEIF or WHEN loop, or a descent into
\* parse_if or parse_case.
LoopsOrDescends ==
    \/ SimpleLoop
    \/ EnterIf
    \/ EnterCase
    \/ IfThen /\ TokIs(Peek, "ELSEIF")
    \/ (CaseThen \/ CaseBase) /\ TokIs(Peek, "WHEN")

\* The control points from which the call goes on: before the call, inside a
\* parse function, or at a return into a frame that waits for it.
HasStep ==
    \/ pc \in {"idle", "start", "call", "simple"}
    \/ pc = "ret" /\ stack = <<>>
    \/ pc = "ret" /\ stack # <<>> /\ Top.fn = "if"
                  /\ Top.st \in {"cond", "then", "else"}
    \/ pc = "ret" /\ stack # <<>> /\ Top.fn = "case"
                  /\ Top.st \in {"base", "when", "then", "else"}

\* C10: parse_expression terminates on every token sequence: the cursor never
\* moves back and never passes the end, every loop iteration and every descent
\* consumes a token, every step of the parser lessens the work left, which is
\* never negative, and a call that has not returned or raised is at a control
\* point from which it goes on.
C10_ParserTerminates ==
    /\ [][Parsing => pos' >= pos /\ Measure' < Measure]_vars
    /\ [][LoopsOrDescends => pos' > pos]_vars
    /\ [](pos <= Len(tokens) /\ Measure >= 0)
    /\ [](Finished \/ HasStep)

C10_Witness ==
    /\ pc = "done"
    /\ src.form = "if"
    /\ Len(src.pairs) = 2
    /\ src.pairs[2][2].form = "if"
    /\ pos = Len(tokens)
    /\ Len(tokens) > Len(src.pairs) * 4

====
